---- MODULE Spec2Model ----
(***************************************************************************)
(* Model of monitor-networkconnections (src/main.py): the polling loop of  *)
(* main(), the snapshot collector get_current_connections(), the diff      *)
(* check_for_new_connections(), and the JSON persistence of the known      *)
(* connections (load_known_connections / save_known_connections).          *)
(*                                                                         *)
(* Python values are represented as follows.                               *)
(*  - a dict is the sequence of its <<key, value>> items in insertion      *)
(*    order, keys unique;                                                  *)
(*  - a dict key is a sequence of integers: <<0, n>> is the int n, and     *)
(*    <<1, c1, ..., ck>> is the str whose characters have codes c1..ck;    *)
(*  - None as a pid is NoPid; an absent address is the empty tuple, as in  *)
(*    psutil; the text "ip:port" is the pair <<ip, port>>.                 *)
(***************************************************************************)
EXTENDS Integers, Sequences, FiniteSets, TLC

VARIABLES pc, run, ticks, seed, output_file, known_connections, raw,
          current_connections, new_connections, known_file, output_content,
          log, stopped_at, reported

(* pc                   where main() stands
   run, ticks           processes started so far; snapshots collected so far
   seed                 the hash seed of the running process
   output_file          whether --output names a file
   known_connections    the value load returned, then the merged known set
   raw                  the enumeration handed to the collector (recorded by
                        CollectorSpec only; the loop draws its enumerations
                        without keeping them)
   current_connections, new_connections   the locals of main
   known_file, output_content             what the two files hold
   log                  the messages the step just taken logged
   stopped_at           where main() stood when its loop ended ("" before)
   reported             history: the keys this run reported as new and merged *)
vars == <<pc, run, ticks, seed, output_file, known_connections, raw,
          current_connections, new_connections, known_file, output_content,
          log, stopped_at, reported>>

(* ---------------- bounds ---------------- *)
MaxTicks == 2
MaxRuns == 2
MaxConns == 2

(* ---------------- Python dicts ---------------- *)
Keys(d) == {d[i][1] : i \in DOMAIN d}

HasKey(d, k) == k \in Keys(d)

Get(d, k) == d[CHOOSE i \in DOMAIN d : d[i][1] = k][2]

SetItem(d, k, v) ==
    IF HasKey(d, k)
    THEN [i \in DOMAIN d |-> IF d[i][1] = k THEN <<k, v>> ELSE d[i]]
    ELSE Append(d, <<k, v>>)

(* known_connections = current_connections instead of update() *)
Update_Replace(d, e) == e

(* the merge is left out *)
Update_Skip(d, e) == d

RECURSIVE Update(_, _)
Update(d, e) ==
    IF e = <<>> THEN d
    ELSE Update(SetItem(d, Head(e)[1], Head(e)[2]), Tail(e))

IntKey(n) == <<0, n>>

IsIntKey(k) == k[1] = 0

IsStrKey(k) == k[1] = 1

(* ---------------- raw connection records (psutil) ---------------- *)
NoPid == 0 - 1

NoAddr == <<>>

Truthy(t) == t # <<>>

NameOutcomes == {"nginx", "bash", "NoSuchProcess", "AccessDenied", "OtherError"}

(* the value of the name field of a raw record whose name is never asked for *)
NotAsked == "-"

(* A raw record carries, besides the fields psutil reports, what the two   *)
(* process look-ups answer when the collector reaches it: pid_exists(pid)  *)
(* and the outcome of Process(pid).name().                                 *)
RawConns ==
    { c \in [laddr : {NoAddr, <<1, 5000>>}, raddr : {NoAddr, <<2, 443>>},
             status : {"ESTABLISHED"}, pid : {NoPid, 7},
             family : {"AddressFamily.AF_INET"},
             type : {"SocketKind.SOCK_STREAM", "SocketKind.SOCK_DGRAM"},
             pid_exists : BOOLEAN, name : NameOutcomes \cup {NotAsked}] :
        /\ (c.pid = NoPid => ~c.pid_exists)
        /\ (c.name = NotAsked) <=>
               ~(c.pid_exists /\ Truthy(c.laddr) /\ Truthy(c.raddr))
        /\ (c.type = "SocketKind.SOCK_DGRAM" => c.name = "nginx")
        /\ (~(Truthy(c.laddr) /\ Truthy(c.raddr)) =>
               /\ Truthy(c.laddr) # Truthy(c.raddr)
               /\ Truthy(c.laddr) = (c.pid # NoPid)
               /\ c.pid_exists = (c.pid # NoPid)) }

RECURSIVE SeqsUpTo(_, _)
SeqsUpTo(S, n) ==
    IF n = 0 THEN {<<>>}
    ELSE LET shorter == SeqsUpTo(S, n - 1)
         IN  shorter \cup {Append(s, x) : s \in {t \in shorter : Len(t) = n - 1}, x \in S}

RawLists == SeqsUpTo(RawConns, MaxConns)

(* The enumerations the polling loop is run on: a listening socket, a socket
   without a pid, and one socket of pid 7 seen under two process names. *)
LoopConns ==
    { c \in RawConns :
        /\ c.type = "SocketKind.SOCK_STREAM"
        /\ c.name \in {"nginx", "bash", NotAsked}
        /\ c.pid_exists = (c.pid # NoPid)
        /\ Truthy(c.laddr) }

LoopLists == SeqsUpTo(LoopConns, MaxConns)

(* ---------------- fingerprint: hash(f"{pid}-{local}-{remote}-{status}") -- *)
Seeds == {0, 1}

StatusCode(status) == IF status = "ESTABLISHED" THEN 1 ELSE 2

(* The formatted text, as the sequence of the values it prints. *)
HashInput(pid, local_address, remote_address, status) ==
    <<pid>> \o local_address \o remote_address \o <<StatusCode(status)>>

RECURSIVE Roll(_, _)
Roll(h, s) ==
    IF s = <<>> THEN h ELSE Roll((h * 31 + Head(s)) % 4096, Tail(s))

(* Python's str hash: a signed integer, salted by the process's hash seed. *)
PyHash(hseed, s) == Roll(hseed + 17, s) - 2048

FormatAddr(addr) == <<addr[1], addr[2]>>

(* the except clause forgets AccessDenied's sentinel and the else branch
   answers "Unknown" *)
ResolveName_Swapped(conn) ==
    IF conn.pid # NoPid /\ conn.pid_exists
    THEN IF conn.name \in {"NoSuchProcess", "AccessDenied"}
         THEN "System"
         ELSE conn.name
    ELSE "Unknown"

ResolveName(conn) ==
    IF conn.pid # NoPid /\ conn.pid_exists
    THEN IF conn.name \in {"NoSuchProcess", "AccessDenied"}
         THEN "Unknown"
         ELSE conn.name
    ELSE "System"

(* Process(pid).name() raised something the inner handler does not name. *)
RaisesInRecord(conn) ==
    conn.pid # NoPid /\ conn.pid_exists /\ conn.name = "OtherError"

HasBothAddresses(conn) == Truthy(conn.laddr) /\ Truthy(conn.raddr)

connection_hash(hseed, conn) ==
    IntKey(PyHash(hseed, HashInput(conn.pid, FormatAddr(conn.laddr),
                                   FormatAddr(conn.raddr), conn.status)))

ConnDetails(conn) ==
    [pid |-> conn.pid,
     local_address |-> FormatAddr(conn.laddr),
     remote_address |-> FormatAddr(conn.raddr),
     status |-> conn.status,
     process_name |-> ResolveName(conn),
     family |-> conn.family,
     type |-> conn.type]

(* the sanity check tests the local address only, and an absent remote
   address is kept as it is *)
ProcessConn_NoFilter(hseed, connections, conn) ==
    IF Truthy(conn.laddr)
    THEN IF RaisesInRecord(conn)
         THEN connections
         ELSE SetItem(connections,
                      IntKey(PyHash(hseed, HashInput(conn.pid, conn.laddr, conn.raddr,
                                                     conn.status))),
                      [pid |-> conn.pid,
                       local_address |-> conn.laddr,
                       remote_address |-> conn.raddr,
                       status |-> conn.status,
                       process_name |-> ResolveName(conn),
                       family |-> conn.family,
                       type |-> conn.type])
    ELSE connections

(* The body of the for loop for one raw record: the dict after it. *)
ProcessConn(hseed, connections, conn) ==
    IF HasBothAddresses(conn)
    THEN IF RaisesInRecord(conn)
         THEN connections
         ELSE SetItem(connections, connection_hash(hseed, conn), ConnDetails(conn))
    ELSE connections

(* the try encloses the for loop: the first record that raises ends the
   enumeration *)
RECURSIVE CollectFrom_Abort(_, _, _)
CollectFrom_Abort(hseed, connections, conns) ==
    IF conns = <<>> THEN connections
    ELSE IF HasBothAddresses(Head(conns)) /\ RaisesInRecord(Head(conns))
         THEN connections
         ELSE CollectFrom_Abort(hseed, ProcessConn(hseed, connections, Head(conns)),
                                Tail(conns))

RECURSIVE CollectFrom(_, _, _)
CollectFrom(hseed, connections, conns) ==
    IF conns = <<>> THEN connections
    ELSE CollectFrom(hseed, ProcessConn(hseed, connections, Head(conns)), Tail(conns))

get_current_connections(hseed, conns) == CollectFrom(hseed, <<>>, conns)

(* ---------------- JSON text and files ---------------- *)
RECURSIVE Digits(_)
Digits(n) == IF n < 10 THEN <<48 + n>> ELSE Append(Digits(n \div 10), 48 + (n % 10))

(* str(n) as character codes; 45 is "-". *)
DecimalChars(n) == IF n < 0 THEN <<45>> \o Digits(0 - n) ELSE Digits(n)

StrKey(chars) == <<1>> \o chars

(* json.dump turns an int key into its decimal text and keeps a str key. *)
JsonName(k) == IF IsIntKey(k) THEN DecimalChars(k[2]) ELSE Tail(k)

(* None is written as null (the empty tuple here), a number as itself. *)
JsonValue(details) ==
    [details EXCEPT !.pid = IF details.pid = NoPid THEN <<>> ELSE <<details.pid>>]

PyValue(jsonvalue) ==
    [jsonvalue EXCEPT !.pid = IF jsonvalue.pid = <<>> THEN NoPid ELSE jsonvalue.pid[1]]

JsonDump(d) == [i \in DOMAIN d |-> <<JsonName(d[i][1]), JsonValue(d[i][2])>>]

RECURSIVE JsonLoadObject(_, _)
JsonLoadObject(d, members) ==
    IF members = <<>> THEN d
    ELSE JsonLoadObject(SetItem(d, StrKey(Head(members)[1]), PyValue(Head(members)[2])),
                        Tail(members))

File(kind, members) == [kind |-> kind, members |-> members]

Py(kind, items) == [kind |-> kind, items |-> items]

EmptyDict == Py("dict", <<>>)

(* What a file can hold before the program ever wrote it. *)
ForeignFiles ==
    {File(k, <<>>) : k \in {"absent", "unreadable", "empty", "invalid",
                            "array", "null", "string"}}

(* json.JSONDecodeError is not caught *)
load_known_connections_Uncaught(file) ==
    CASE file.kind = "absent" -> EmptyDict
      [] file.kind = "unreadable" -> EmptyDict
      [] file.kind \in {"empty", "invalid"} -> Py("raised", <<>>)
      [] file.kind = "object" -> Py("dict", JsonLoadObject(<<>>, file.members))
      [] file.kind = "array" -> Py("list", <<>>)
      [] file.kind = "null" -> Py("NoneType", <<>>)
      [] file.kind = "string" -> Py("str", <<>>)

(* The value returned; Py("raised", ..) stands for an exception leaving the
   function, which none of its paths does. *)
load_known_connections(file) ==
    CASE file.kind = "absent" -> EmptyDict
      [] file.kind = "unreadable" -> EmptyDict
      [] file.kind \in {"empty", "invalid"} -> EmptyDict
      [] file.kind = "object" -> Py("dict", JsonLoadObject(<<>>, file.members))
      [] file.kind = "array" -> Py("list", <<>>)
      [] file.kind = "null" -> Py("NoneType", <<>>)
      [] file.kind = "string" -> Py("str", <<>>)

WriteOutcomes == {"ok", "open_fails", "write_fails"}

(* the file is opened with 'a' *)
WriteJson_Append(d, file, outcome) ==
    CASE outcome = "ok" -> IF file.kind \in {"absent", "empty"}
                           THEN File("object", JsonDump(d))
                           ELSE File("invalid", <<>>)
      [] outcome = "open_fails" -> file
      [] outcome = "write_fails" -> File("invalid", <<>>)

(* open(path, 'w') then json.dump: the file after the attempt. *)
WriteJson(d, file, outcome) ==
    CASE outcome = "ok" -> File("object", JsonDump(d))
      [] outcome = "open_fails" -> file
      [] outcome = "write_fails" -> File("invalid", <<>>)

save_known_connections(connections, file, outcome) ==
    WriteJson(connections.items, file, outcome)

(* ---------------- diff ---------------- *)
(* "not" is dropped *)
NotIn_Inverted(k, known) ==
    CASE known.kind = "dict" -> HasKey(known.items, k)
      [] known.kind = "list" -> FALSE
      [] OTHER -> FALSE

(* connection_hash not in known_connections *)
NotIn(k, known) ==
    CASE known.kind = "dict" -> ~HasKey(known.items, k)
      [] known.kind = "list" -> TRUE
      [] OTHER -> TRUE

(* "in" raises TypeError on None, and on a str with an int on the left. *)
MembershipRaises(known) == known.kind \in {"NoneType", "str"}

RECURSIVE NewFrom(_, _, _)
NewFrom(known, new, items) ==
    IF items = <<>> THEN new
    ELSE NewFrom(known,
                 IF NotIn(Head(items)[1], known)
                 THEN SetItem(new, Head(items)[1], Head(items)[2])
                 ELSE new,
                 Tail(items))

check_for_new_connections(known, current) == NewFrom(known, <<>>, current)

(* ---------------- logging ---------------- *)
RECURSIVE CollectLog(_)
CollectLog(conns) ==
    IF conns = <<>> THEN <<>>
    ELSE LET conn == Head(conns)
             line == IF ~HasBothAddresses(conn) THEN <<>>
                     ELSE IF RaisesInRecord(conn)
                          THEN <<"Error processing connection">>
                          ELSE IF conn.pid # NoPid /\ conn.pid_exists
                                  /\ conn.name \in {"NoSuchProcess", "AccessDenied"}
                               THEN <<"Could not get process name">>
                               ELSE <<>>
         IN  line \o CollectLog(Tail(conns))

LoadLog(file) ==
    CASE file.kind = "unreadable" -> <<"Error loading known connections">>
      [] file.kind \in {"empty", "invalid"} -> <<"Error decoding JSON">>
      [] OTHER -> <<>>

DetectedLog(new) == [i \in DOMAIN new |-> "New connection detected"]

(* the except clause of main that caught the exception, then its finally *)
TerminationLog_NoFinally(cause) ==
    IF cause = "KeyboardInterrupt"
    THEN <<"Exiting program.">>
    ELSE <<"An unexpected error occurred">>

TerminationLog(cause) ==
    IF cause = "KeyboardInterrupt"
    THEN <<"Exiting program.", "Program terminated.">>
    ELSE <<"An unexpected error occurred", "Program terminated.">>

(* ---------------- alert ---------------- *)
(* the output file is written on every tick *)
ShouldWrite_Always(new, configured) == configured

(* if new_connections: if output_file: *)
ShouldWrite(new, configured) == new # <<>> /\ configured

(* json.dump(known_connections, f, indent=4) *)
OutputPayload_Known(known, new) == known.items

(* json.dump(new_connections, f, indent=4) *)
OutputPayload(known, new) == new


(* What open(path, 'w') leaves when the write after it does not finish. *)
Truncated == File("invalid", <<>>)

(* exceptions of the write leave save_known_connections *)
save_raises_Uncaught(outcome) == outcome # "ok"

(* Whether an exception of the write leaves save_known_connections: its
   except Exception clause takes every one. *)
save_raises(outcome) == FALSE

(* ---------------- main ---------------- *)
Init ==
    /\ pc = "load"
    /\ run = 1
    /\ ticks = 0
    /\ seed \in Seeds
    /\ output_file \in BOOLEAN
    /\ known_connections = EmptyDict
    /\ raw = <<>>
    /\ current_connections = <<>>
    /\ new_connections = <<>>
    /\ known_file \in ForeignFiles
    /\ output_content = File("absent", <<>>)
    /\ log = <<>>
    /\ stopped_at = ""
    /\ reported = {}

(* known_connections = load_known_connections(known_connections_file), before
   the try of main: an exception here would end the process. *)
Load ==
    /\ pc = "load"
    /\ LET loaded == load_known_connections(known_file)
       IN  IF loaded.kind = "raised"
           THEN /\ pc' = "terminated"
                /\ stopped_at' = "load"
                /\ log' = <<>>
                /\ UNCHANGED known_connections
           ELSE /\ known_connections' = loaded
                /\ pc' = "collect"
                /\ log' = LoadLog(known_file)
                /\ UNCHANGED stopped_at
    /\ UNCHANGED <<run, ticks, seed, output_file, raw, current_connections,
                   new_connections, known_file, output_content, reported>>

(* current_connections = get_current_connections(); the enumeration itself,
   outside the per-record try, may raise. *)
Collect ==
    /\ pc = "collect"
    /\ ticks < MaxTicks
    /\ ticks' = ticks + 1
    /\ \/ /\ \E conns \in LoopLists :
                /\ current_connections' = get_current_connections(seed, conns)
                /\ log' = CollectLog(conns)
          /\ pc' = "diff"
          /\ UNCHANGED stopped_at
       \/ /\ pc' = "terminated"
          /\ stopped_at' = pc
          /\ log' = TerminationLog("Exception")
          /\ UNCHANGED current_connections
    /\ UNCHANGED <<run, seed, output_file, known_connections, raw, new_connections,
                   known_file, output_content, reported>>

(* the merge moved before the diff: the diff sees the snapshot already known *)
Diff_AfterMerge ==
    /\ pc = "diff"
    /\ IF current_connections # <<>> /\ MembershipRaises(known_connections)
       THEN /\ pc' = "terminated"
            /\ stopped_at' = pc
            /\ log' = TerminationLog("Exception")
            /\ UNCHANGED <<new_connections, output_content>>
       ELSE /\ new_connections' =
                   check_for_new_connections(
                       IF known_connections.kind = "dict"
                       THEN Py("dict", Update(known_connections.items,
                                              current_connections))
                       ELSE known_connections,
                       current_connections)
            /\ log' = DetectedLog(new_connections') \o
                      <<IF new_connections' # <<>>
                        THEN "New connections found, but no output file specified."
                        ELSE "No new connections detected.">>
            /\ pc' = "merge"
            /\ UNCHANGED <<stopped_at, output_content>>
    /\ UNCHANGED <<run, ticks, seed, output_file, known_connections, raw,
                   current_connections, known_file, reported>>

(* new_connections = check_for_new_connections(known_connections,
   current_connections, output_file): the diff, then the alert. *)
Diff ==
    /\ pc = "diff"
    /\ IF current_connections # <<>> /\ MembershipRaises(known_connections)
       THEN /\ pc' = "terminated"
            /\ stopped_at' = pc
            /\ log' = TerminationLog("Exception")
            /\ UNCHANGED <<new_connections, output_content>>
       ELSE /\ new_connections' =
                   check_for_new_connections(known_connections, current_connections)
            /\ IF ShouldWrite(new_connections', output_file)
               THEN \E outcome \in WriteOutcomes :
                       /\ output_content' =
                              WriteJson(OutputPayload(known_connections, new_connections'),
                                        output_content, outcome)
                       /\ log' = DetectedLog(new_connections') \o
                                 <<IF outcome = "ok"
                                   THEN "New connections written"
                                   ELSE "Error writing new connections">>
               ELSE /\ UNCHANGED output_content
                    /\ log' = DetectedLog(new_connections') \o
                              <<IF new_connections' # <<>>
                                THEN "New connections found, but no output file specified."
                                ELSE "No new connections detected.">>
            /\ pc' = "merge"
            /\ UNCHANGED stopped_at
    /\ UNCHANGED <<run, ticks, seed, output_file, known_connections, raw,
                   current_connections, known_file, reported>>

(* known_connections.update(current_connections) *)
Merge ==
    /\ pc = "merge"
    /\ IF known_connections.kind = "dict"
       THEN /\ known_connections' =
                   Py("dict", Update(known_connections.items, current_connections))
            /\ reported' = reported \cup Keys(new_connections)
            /\ pc' = "save"
            /\ log' = <<>>
            /\ UNCHANGED stopped_at
       ELSE /\ pc' = "terminated"
            /\ stopped_at' = pc
            /\ log' = TerminationLog("Exception")
            /\ UNCHANGED <<known_connections, reported>>
    /\ UNCHANGED <<run, ticks, seed, output_file, raw, current_connections,
                   new_connections, known_file, output_content>>

(* save_known_connections(known_connections, known_connections_file) *)
Save ==
    /\ pc = "save"
    /\ \E outcome \in WriteOutcomes :
          /\ known_file' = save_known_connections(known_connections, known_file, outcome)
          /\ IF save_raises(outcome)
             THEN /\ pc' = "terminated"
                  /\ stopped_at' = pc
                  /\ log' = TerminationLog("Exception")
             ELSE /\ pc' = "sleep"
                  /\ log' = IF outcome = "ok" THEN <<>>
                            ELSE <<"Error saving known connections">>
                  /\ UNCHANGED stopped_at
    /\ UNCHANGED <<run, ticks, seed, output_file, known_connections, raw,
                   current_connections, new_connections, output_content, reported>>

(* time.sleep(interval).  The snapshot and the diff of the tick that ended are
   never read again: both names are rebound before the next use. *)
Sleep ==
    /\ pc = "sleep"
    /\ pc' = "collect"
    /\ current_connections' = <<>>
    /\ new_connections' = <<>>
    /\ log' = <<>>
    /\ UNCHANGED <<run, ticks, seed, output_file, known_connections, raw,
                   known_file, output_content, stopped_at, reported>>

(* KeyboardInterrupt, delivered between two steps of the loop.  No handler
   below main catches it: the except clauses of the components name Exception. *)
Interrupt ==
    /\ pc \in {"collect", "diff", "merge", "save", "sleep"}
    /\ pc' = "terminated"
    /\ stopped_at' = pc
    /\ log' = TerminationLog("KeyboardInterrupt")
    /\ UNCHANGED <<run, ticks, seed, output_file, known_connections, raw,
                   current_connections, new_connections, known_file, output_content,
                   reported>>

(* KeyboardInterrupt delivered while a file is being written: open(path, 'w')
   has truncated it and json.dump has not finished. *)
InterruptWrite ==
    /\ \/ /\ pc = "save"
          /\ known_file' = Truncated
          /\ UNCHANGED output_content
       \/ /\ pc = "diff"
          /\ ~MembershipRaises(known_connections)
          /\ ShouldWrite(check_for_new_connections(known_connections,
                                                   current_connections), output_file)
          /\ output_content' = Truncated
          /\ UNCHANGED known_file
    /\ pc' = "terminated"
    /\ stopped_at' = pc
    /\ log' = TerminationLog("KeyboardInterrupt")
    /\ UNCHANGED <<run, ticks, seed, output_file, known_connections, raw,
                   current_connections, new_connections, reported>>

(* The operator starts the program again: a new process, a new hash seed. *)
Restart ==
    /\ pc = "terminated"
    /\ run < MaxRuns
    /\ run' = run + 1
    /\ seed' \in Seeds
    /\ pc' = "load"
    /\ known_connections' = EmptyDict
    /\ raw' = <<>>
    /\ current_connections' = <<>>
    /\ new_connections' = <<>>
    /\ log' = <<>>
    /\ stopped_at' = ""
    /\ reported' = {}
    /\ UNCHANGED <<ticks, output_file, known_file, output_content>>

Next ==
    \/ Load
    \/ Collect
    \/ Diff
    \/ Merge
    \/ Save
    \/ Sleep
    \/ Interrupt
    \/ InterruptWrite
    \/ Restart

Spec == Init /\ [][Next]_vars

(* ------- one tick from an empty known set, on every enumeration ------- *)
CollectorInit ==
    /\ pc = "collector"
    /\ run = 1
    /\ ticks = 0
    /\ seed \in Seeds
    /\ output_file = FALSE
    /\ known_connections = EmptyDict
    /\ raw = <<>>
    /\ current_connections = <<>>
    /\ new_connections = <<>>
    /\ known_file = File("absent", <<>>)
    /\ output_content = File("absent", <<>>)
    /\ log = <<>>
    /\ stopped_at = ""
    /\ reported = {}

CollectOnly ==
    /\ pc = "collector"
    /\ \E conns \in RawLists :
          /\ raw' = conns
          /\ current_connections' = get_current_connections(seed, conns)
          /\ log' = CollectLog(conns)
    /\ pc' = "diff"
    /\ UNCHANGED <<run, ticks, seed, output_file, known_connections,
                   new_connections, known_file, output_content, stopped_at, reported>>

CollectorNext ==
    \/ CollectOnly
    \/ Diff
    \/ Merge

CollectorSpec == CollectorInit /\ [][CollectorNext]_vars

(* ======================= properties ======================= *)
SameTuple(a, b) ==
    /\ a.pid = b.pid
    /\ a.local_address = b.local_address
    /\ a.remote_address = b.remote_address
    /\ a.status = b.status

KnownIsDict == known_connections.kind = "dict"

(* C1: once the diff of a tick has run against a known mapping, the result
   holds exactly the items of the snapshot whose key is not a key of the known
   mapping, each with the snapshot's record, and it is empty when every key of
   the snapshot is known. *)
DiffExact_C1 ==
    (pc = "merge" /\ KnownIsDict) =>
        /\ Keys(new_connections) =
               Keys(current_connections) \ Keys(known_connections.items)
        /\ Len(new_connections) = Cardinality(Keys(new_connections))
        /\ \A k \in Keys(new_connections) :
               Get(new_connections, k) = Get(current_connections, k)
        /\ (Keys(current_connections) \subseteq Keys(known_connections.items)
               => new_connections = <<>>)

(* a diff that reported one item of the snapshot and held back another *)
DiffSplits_C1 ==
    /\ pc = "merge"
    /\ KnownIsDict
    /\ new_connections # <<>>
    /\ Len(new_connections) < Len(current_connections)

(* C2: in a run that loaded the file an earlier run saved, a connection of
   the snapshot whose (pid, local, remote, status) equals that of an entry
   loaded from the file is not in the tick's new connections.  (The entries
   with str keys are exactly those that load took from the file.) *)
NoReReport_C2 ==
    (pc = "merge" /\ KnownIsDict) =>
        \A i \in DOMAIN current_connections, j \in DOMAIN known_connections.items :
            ( /\ IsStrKey(known_connections.items[j][1])
              /\ SameTuple(known_connections.items[j][2], current_connections[i][2]) )
            => ~HasKey(new_connections, current_connections[i][1])

(* C3: after a successful save of the known mapping, loading the file gives a
   mapping equal to the one saved, keys and records. *)
RoundTrip_C3 ==
    ( /\ pc = "sleep"
      /\ known_file = save_known_connections(known_connections, known_file, "ok") )
    => load_known_connections(known_file) = known_connections

(* C4: the merge of a tick keeps every key the known set had and adds every
   key of the snapshot, and no step of a run removes a key from the known
   set. *)
MergeMonotone_C4 ==
    [][ /\ (pc = "merge" /\ pc' = "save") =>
               (Keys(known_connections.items) \cup Keys(current_connections))
                   \subseteq Keys(known_connections'.items)
        /\ (run' = run) =>
               Keys(known_connections.items) \subseteq Keys(known_connections'.items)
      ]_vars

(* a merge that kept a key the snapshot did not bring *)
MergeKept_C4 ==
    /\ pc = "save"
    /\ current_connections # <<>>
    /\ \E k \in Keys(known_connections.items) : ~HasKey(current_connections, k)

(* C5: whatever the file holds, what load returned to the loop is a
   mapping. *)
LoadReturnsMapping_C5 ==
    pc \in {"collect", "diff", "merge", "save", "sleep"} => KnownIsDict

(* C6: on a path that does not exist, an empty file, or a file of invalid JSON,
   load returns the empty mapping and the program goes on to its first tick. *)
LoadResilience_C6 ==
    [][ (pc = "load" /\ known_file.kind \in {"absent", "empty", "invalid"}) =>
            (pc' = "collect" /\ known_connections' = EmptyDict) ]_vars

(* a second run that started from a file a failed write left invalid *)
LoadedFromBroken_C6 ==
    /\ pc = "collect"
    /\ run = 2
    /\ known_file.kind = "invalid"
    /\ known_connections = EmptyDict

(* C7: every record of the snapshot, of the tick's new connections and of the
   known set built from the snapshot has both addresses, and they are those of
   a raw record that has both. *)
FilterInvariant_C7 ==
    \A d \in {current_connections, new_connections, known_connections.items} :
        \A i \in DOMAIN d :
            /\ d[i][2].local_address # NoAddr
            /\ d[i][2].remote_address # NoAddr
            /\ \E j \in DOMAIN raw :
                   /\ raw[j].laddr # NoAddr
                   /\ raw[j].raddr # NoAddr
                   /\ d[i][2].local_address = raw[j].laddr
                   /\ d[i][2].remote_address = raw[j].raddr

(* a tick completed on an enumeration holding a record without an address
   next to one that is tracked *)
FilteredOut_C7 ==
    /\ pc = "save"
    /\ current_connections # <<>>
    /\ \E j \in DOMAIN raw : raw[j].laddr = NoAddr \/ raw[j].raddr = NoAddr

(* C8: two records with equal (pid, local, remote, status) have the same
   fingerprint: the key of a snapshot record and the key of a known record of
   the same tuple are the same number, whether the known record was keyed in
   this run or in the run that saved it. *)
FingerprintDeterminism_C8 ==
    \A i \in DOMAIN current_connections, j \in DOMAIN known_connections.items :
        SameTuple(current_connections[i][2], known_connections.items[j][2])
        => JsonName(current_connections[i][1]) = JsonName(known_connections.items[j][1])

(* a raw record with both addresses whose processing raises nothing *)
Included(c) ==
    /\ c.laddr # NoAddr
    /\ c.raddr # NoAddr
    /\ ~(c.pid # NoPid /\ c.pid_exists /\ c.name = "OtherError")

(* raw record i is the one whose details the snapshot keeps for its key *)
Kept(i) ==
    /\ Included(raw[i])
    /\ \A j \in DOMAIN raw :
           (j > i /\ Included(raw[j]))
           => connection_hash(seed, raw[j]) # connection_hash(seed, raw[i])

SnapshotName(i) ==
    Get(current_connections, connection_hash(seed, raw[i])).process_name

(* C9 as stated: the snapshot record of a raw record with both addresses is
   named "System" exactly when the raw record has no pid, and with a pid it
   carries the resolved name or "Unknown". *)
SentinelsAsStated_C9 ==
    pc # "collector" =>
        \A i \in DOMAIN raw :
            Kept(i) =>
                /\ HasKey(current_connections, connection_hash(seed, raw[i]))
                /\ (SnapshotName(i) = "System") <=> (raw[i].pid = NoPid)
                /\ (raw[i].pid # NoPid) => SnapshotName(i) \in {"nginx", "bash", "Unknown"}

(* C9 amended: the name is "System" exactly when the raw record has no pid or
   pid_exists answers no for it; else it is the resolved name, or "Unknown"
   when the look-up raises NoSuchProcess or AccessDenied. *)
Sentinels_C9 ==
    pc # "collector" =>
        \A i \in DOMAIN raw :
            Kept(i) =>
                /\ HasKey(current_connections, connection_hash(seed, raw[i]))
                /\ (SnapshotName(i) = "System")
                       <=> (raw[i].pid = NoPid \/ ~raw[i].pid_exists)
                /\ (raw[i].pid # NoPid /\ raw[i].pid_exists) =>
                       SnapshotName(i) =
                           IF raw[i].name \in {"NoSuchProcess", "AccessDenied"}
                           THEN "Unknown"
                           ELSE raw[i].name

(* a snapshot holding "System" for a pid that did not exist, collected from an
   enumeration where the look-up of the same pid had first been denied *)
SystemForDeadPid_C9 ==
    /\ pc = "diff"
    /\ \E i \in DOMAIN raw :
           /\ Kept(i)
           /\ raw[i].pid # NoPid
           /\ ~raw[i].pid_exists
           /\ SnapshotName(i) = "System"
    /\ \E i \in DOMAIN raw : raw[i].name = "AccessDenied"

(* C10: a snapshot record whose tuple the known set already holds under another
   process name is not among the tick's new connections, and after the merge
   the known set's record under the snapshot's key carries the snapshot's
   process name. *)
ScenarioB_C10 ==
    /\ (pc = "merge" /\ KnownIsDict) =>
           \A i \in DOMAIN current_connections, j \in DOMAIN known_connections.items :
               ( /\ SameTuple(known_connections.items[j][2], current_connections[i][2])
                 /\ known_connections.items[j][2].process_name
                        # current_connections[i][2].process_name )
               => ~HasKey(new_connections, current_connections[i][1])
    /\ pc = "save" =>
           \A i \in DOMAIN current_connections :
               /\ HasKey(known_connections.items, current_connections[i][1])
               /\ Get(known_connections.items, current_connections[i][1]).process_name
                      = current_connections[i][2].process_name

Logged(m) == \E i \in DOMAIN log : log[i] = m

(* C11: when an output path is configured and a tick detects a new connection
   and its write succeeds, the output file then holds exactly the
   serialization of that tick's new connections, whatever it held before; it
   is the known set's serialization only when the known set has no other
   entry. *)
OutputIsNewSubset_C11 ==
    [][ ( /\ pc = "diff"
          /\ pc' = "merge"
          /\ output_file
          /\ new_connections' # <<>>
          /\ \E i \in DOMAIN log' : log'[i] = "New connections written" )
        => /\ output_content' = File("object", JsonDump(new_connections'))
           /\ known_connections.items # <<>> =>
                  output_content' #
                      File("object", JsonDump(Update(known_connections.items,
                                                     current_connections)))
      ]_vars

(* a tick of a run that already knew a connection wrote its new one *)
OutputWritten_C11 ==
    /\ pc = "merge"
    /\ Logged("New connections written")
    /\ known_connections.items # <<>>
    /\ Len(new_connections) < Len(current_connections)
    /\ output_content = File("object", JsonDump(new_connections))

(* a raw record with both addresses whose processing raises *)
Raising(c) ==
    /\ c.laddr # NoAddr
    /\ c.raddr # NoAddr
    /\ c.pid # NoPid /\ c.pid_exists /\ c.name = "OtherError"

(* C12: when the processing of a raw record raises, that record alone is
   skipped: every raw record of the enumeration that has both addresses and
   raises nothing has its key in the snapshot, a key that only raising records
   have is not in it, and the tick goes on to its diff and merge. *)
ErrorIsolation_C12 ==
    pc # "collector" =>
        /\ pc \in {"diff", "merge", "save"}
        /\ \A i \in DOMAIN raw :
               Included(raw[i]) =>
                   HasKey(current_connections, connection_hash(seed, raw[i]))
        /\ \A i \in DOMAIN raw :
               ( /\ Raising(raw[i])
                 /\ \A j \in DOMAIN raw :
                        Included(raw[j]) =>
                            connection_hash(seed, raw[j]) # connection_hash(seed, raw[i]) )
               => ~HasKey(current_connections, connection_hash(seed, raw[i]))

(* a tick completed on an enumeration where a record raised before another
   one that was then collected and merged *)
CollectedAfterError_C12 ==
    /\ pc = "save"
    /\ \E i, j \in DOMAIN raw :
           /\ i < j
           /\ Raising(raw[i])
           /\ Included(raw[j])
           /\ HasKey(known_connections.items, connection_hash(seed, raw[j]))

(* C13: a save step that is not cut by an interrupt always goes on to the
   sleep with the in-memory known set as it was, whether the write failed or
   not; and unless it logs its failure it leaves in the file the serialization
   of the whole known set, entries of earlier failed saves included. *)
SaveFailureAbsorbed_C13 ==
    [][ ( /\ pc = "save"
          /\ ~\E i \in DOMAIN log' : log'[i] = "Exiting program." )
        => /\ pc' = "sleep"
           /\ known_connections' = known_connections
           /\ \/ \E i \in DOMAIN log' : log'[i] = "Error saving known connections"
              \/ known_file' = File("object", JsonDump(known_connections.items))
      ]_vars

(* the loop at its sleep after a save that failed, the known set in memory
   holding entries the file does not *)
SleptAfterFailedSave_C13 ==
    /\ pc = "sleep"
    /\ Logged("Error saving known connections")
    /\ known_connections.items # <<>>
    /\ known_file # File("object", JsonDump(known_connections.items))

Interrupted == pc = "terminated" /\ Logged("Exiting program.")

(* C14 as stated: the loop exits on an interrupt only from its sleep (or
   before the next tick has begun collecting), never with a tick in
   progress. *)
InterruptOnlyAtSleep_C14 ==
    Interrupted => stopped_at \in {"sleep", "collect"}

(* C14 amended: an interrupt ends the loop wherever main stands.  The tick is
   complete only if main stood at the sleep; stopped before the merge, the
   connections the tick reported are not in the known set; stopped before the
   diff returned, no result was bound; stopped after the merge, the snapshot
   is in the in-memory known set. *)
InterruptAbortsTick_C14 ==
    Interrupted =>
        /\ stopped_at \in {"collect", "diff", "merge", "save", "sleep"}
        /\ stopped_at \in {"save", "sleep"} =>
               Keys(current_connections) \subseteq Keys(known_connections.items)
        /\ stopped_at = "merge" =>
               Keys(new_connections) \cap Keys(known_connections.items) = {}
        /\ stopped_at = "diff" => new_connections = <<>>

(* an interrupt that ended the loop after a tick had reported new connections
   and before it merged them *)
AbortedBeforeMerge_C14 ==
    /\ Interrupted
    /\ stopped_at = "merge"
    /\ new_connections # <<>>

(* C15 as stated: whatever happens in a tick, a change of the known-connections
   file leaves in it the complete serialization of the known set as merged. *)
NeverPartial_C15 ==
    [][ known_file' # known_file =>
            known_file' = File("object", JsonDump(known_connections.items)) ]_vars

(* C15 amended: only the persist step changes the file; it leaves the complete
   serialization of the merged known set, or, when the write fails after the
   file was opened or an interrupt cuts it, a truncated file, and then the
   failure or the exit is logged. *)
PartialOnlyOnFailure_C15 ==
    [][ known_file' # known_file =>
            /\ pc = "save"
            /\ \/ known_file' = File("object", JsonDump(known_connections.items))
               \/ /\ known_file' = Truncated
                  /\ \E i \in DOMAIN log' :
                         log'[i] \in {"Error saving known connections",
                                      "Exiting program."} ]_vars

(* a run that loaded a valid file and whose failed save left it truncated *)
TruncatedBySave_C15 ==
    /\ pc = "sleep"
    /\ Logged("Error saving known connections")
    /\ \E k \in Keys(known_connections.items) : IsStrKey(k)
    /\ known_file = Truncated

(* C16: an error the components do not absorb (merge into a value that is not
   a dict, membership test on a value that does not support it, a failing
   enumeration) ends the loop; every step that ends the loop logs the cause
   first and "Program terminated." last; once the loop has ended no tick is
   started in that run: the only step left is the start of another run. *)
FailStop_C16 ==
    [][ /\ (pc = "merge" /\ known_connections.kind # "dict") => pc' = "terminated"
        /\ (pc = "diff" /\ current_connections # <<>>
                /\ MembershipRaises(known_connections)) => pc' = "terminated"
        /\ (pc \in {"collect", "diff", "merge", "save", "sleep"}
                /\ pc' = "terminated") =>
               /\ Len(log') = 2
               /\ log'[1] \in {"An unexpected error occurred", "Exiting program."}
               /\ log'[Len(log')] = "Program terminated."
        /\ pc = "terminated" =>
               /\ pc' = "load"
               /\ run' = run + 1
               /\ ticks' = ticks ]_vars

(* the loop ended on an error raised by the merge *)
StoppedOnError_C16 ==
    /\ pc = "terminated"
    /\ stopped_at = "merge"
    /\ known_connections.kind # "dict"
    /\ Logged("An unexpected error occurred")
    /\ Logged("Program terminated.")

(* C17: the steps of a tick follow one another as collect, diff with its
   alert, merge, persist, sleep; the diff is computed against the known set as
   it is before the merge of the tick, which the diff leaves alone and the
   merge then extends with the snapshot; a collect starts only after the load
   or after the sleep of the tick before. *)
TickOrder_C17 ==
    [][ /\ pc = "collect" => pc' \in {"diff", "terminated"}
        /\ pc = "diff" => pc' \in {"merge", "terminated"}
        /\ pc = "merge" => pc' \in {"save", "terminated"}
        /\ pc = "save" => pc' \in {"sleep", "terminated"}
        /\ pc = "sleep" => pc' \in {"collect", "terminated"}
        /\ pc' = "collect" => pc \in {"load", "sleep"}
        /\ output_content' # output_content => pc = "diff"
        /\ known_file' # known_file => pc = "save"
        /\ (pc = "diff" /\ pc' = "merge") =>
               /\ known_connections' = known_connections
               /\ new_connections' =
                      check_for_new_connections(known_connections,
                                                current_connections)
        /\ (pc = "merge" /\ pc' = "save") =>
               /\ known_connections'.items =
                      Update(known_connections.items, current_connections)
               /\ new_connections' = new_connections
               /\ current_connections' = current_connections ]_vars

(* the second tick of a run has diffed and then merged a new connection *)
SecondTickMerged_C17 ==
    /\ pc = "save"
    /\ run = 1
    /\ ticks = 2
    /\ new_connections # <<>>
    /\ Keys(new_connections) \subseteq Keys(known_connections.items)

(* C18: within one run, the new-connections result of a tick holds no
   fingerprint that an earlier tick of the run reported and merged. *)
ReportedOnce_C18 ==
    pc = "merge" => Keys(new_connections) \cap reported = {}

(* a connection reported and merged earlier in the run is observed again and
   is not in the result of the diff *)
ObservedAgain_C18 ==
    /\ pc = "merge"
    /\ \E k \in Keys(current_connections) :
           k \in reported /\ ~HasKey(new_connections, k)

(* C19 as stated: the output file changes only in a tick that detected a new
   connection, and then holds the new-connections subset of that tick. *)
OutputIsLastSubset_C19 ==
    [][ output_content' # output_content =>
            /\ pc = "diff"
            /\ new_connections' # <<>>
            /\ output_content' = File("object", JsonDump(new_connections')) ]_vars

(* C19 amended: the output file changes only in the alert of a tick whose diff
   is not empty; it then holds the new-connections subset of that tick, or is
   left truncated by a write that failed or was interrupted, which is logged. *)
OutputUntouchedWithoutNew_C19 ==
    [][ output_content' # output_content =>
            /\ pc = "diff"
            /\ output_file
            /\ check_for_new_connections(known_connections,
                                         current_connections) # <<>>
            /\ \/ /\ output_content' = File("object", JsonDump(new_connections'))
                  /\ \E i \in DOMAIN log' : log'[i] = "New connections written"
               \/ /\ output_content' = Truncated
                  /\ \E i \in DOMAIN log' :
                         log'[i] \in {"Error writing new connections",
                                      "Exiting program."} ]_vars

(* a tick that found nothing new has left the file of an earlier tick alone *)
NothingNewFileKept_C19 ==
    /\ pc = "merge"
    /\ output_file
    /\ current_connections # <<>>
    /\ new_connections = <<>>
    /\ Logged("No new connections detected.")
    /\ output_content.kind = "object"
    /\ output_content.members # <<>>

====
